---- MODULE Spec2Model ----
(***************************************************************************)
(* LED pattern firmware templates (STM32F407, PIC18F4550, Nuvoton M051)    *)
(* and the hash verification routine, as one state machine.  A behaviour   *)
(* is the execution of ONE linked image: `image` names which main() runs.  *)
(* The Pattern is the build-time input, drawn in Init; the build emits     *)
(* pattern_data.h (FRAME_COUNT, LED_COUNT, frames, frame_durations) from   *)
(* it or rejects it, and the header never changes afterwards.              *)
(***************************************************************************)
EXTENDS Integers, Sequences, FiniteSets, TLC

\* ------------------------------------------------------------------ bounds
MaxFrames == 2       \* FRAME_COUNT ranges over 1..MaxFrames (plus the wrap case)
MaxLeds == 2         \* LED_COUNT ranges over 1..MaxLeds
MaxDuration == 2     \* frame_durations[f] ranges over 0..MaxDuration (ms)
MaxSeed == 2         \* which test pattern fills the pixel table

\* ------------------------------------------------------- program constants
BitsPerByte == 8           \* stm32f407_template.c:54  bit < 8
InnerDelayLoops == 1000    \* stm32f407_template.c:76  j < 1000, "Delay 1ms"
DelayStepNs == InnerDelayLoops * 1000   \* one outer delay_ms iteration, in ns

Templates == {"STM32F407", "PIC18F4550", "NUVOTON_M051"}
Images == Templates \cup {"HASHER"}

\* Width in bits of the loop counters frame_idx and i of each template.
CounterBits(img) == IF img = "PIC18F4550" THEN 8 ELSE 16

Wrap(x, bits) == x % (2 ^ bits)

\* Byte values the test patterns are made of (all-ones, all-zeros, mixed).
ByteTable == <<255, 0, 165, 1, 128, 60>>

PixelByte(seed, f, k) == ByteTable[((seed + f + k) % Len(ByteTable)) + 1]

\* pattern_data.h for one build: frames[f] is LED_COUNT*3 bytes, 0-indexed.
MakeFrames(fc, lc, seed) ==
    [f \in 0 .. fc - 1 |-> [k \in 0 .. lc * 3 - 1 |-> PixelByte(seed, f, k)]]

\* Durations in ms: the short ones 0 .. MaxDuration, and for the seed past
\* MaxDuration long ones, above what a uint16_t holds.
MakeDurations(fc, seed) ==
    [f \in 0 .. fc - 1 |->
        IF seed > MaxDuration THEN 2 ^ 16 + 1 ELSE (seed + f) % (MaxDuration + 1)]

\* Frame counts a header can hold that are tried for an image: the small
\* ones, and for the 8-bit frame_idx one that no uint8_t value reaches.
\* The hash routine is an image of its own and includes no pattern header.
FrameCounts(img) ==
    IF img = "HASHER" THEN {1}
    ELSE (1 .. MaxFrames)
         \cup (IF img = "PIC18F4550" THEN {2 ^ CounterBits(img) + 1} ELSE {})

LedCounts(img) == IF img = "HASHER" THEN {1} ELSE 1 .. MaxLeds

\* Only the hash routine talks to the serial channel.
SerialStates(img) == IF img = "HASHER" THEN BOOLEAN ELSE {FALSE}

PixelSeeds(img) == IF img = "HASHER" THEN {0} ELSE 0 .. MaxSeed

DurationSeeds(img) == IF img = "HASHER" THEN {0} ELSE 0 .. MaxDuration + 1

\* firmware_data[0 .. firmware_size-1] linked into the hash routine: the empty
\* image and the three bytes "abc".
FirmwareImages(img) == IF img = "HASHER" THEN {<<>>, <<97, 98, 99>>} ELSE {<<>>}

\* Number of frames of a frame table, and number of bytes of one frame.
FrameCountOf(fs) == Cardinality(DOMAIN fs)
ByteCountOf(fr) == Cardinality(DOMAIN fr)

\* A Pattern as authored, kept by the parameters that generate it: `short`
\* pixels are missing from its last frame.
MakePattern(fc, lc, short, seed, dseed) ==
    [frame_count |-> fc, leds |-> lc, short |-> short, seed |-> seed, dseed |-> dseed]

\* The pixel bytes of the frames of a Pattern, and the durations of its frames.
PatternFrames(p) ==
    [f \in 0 .. p.frame_count - 1 |->
        IF f = p.frame_count - 1 /\ p.short > 0
        THEN [k \in 0 .. (p.leds - p.short) * 3 - 1 |-> PixelByte(p.seed, f, k)]
        ELSE MakeFrames(p.frame_count, p.leds, p.seed)[f]]

PatternDurations(p) == MakeDurations(p.frame_count, p.dseed)

\* A strip so long that LED_COUNT*3 does not fit the uint16_t Len of
\* WS2812_Send: 21846 LEDs, 65538 bytes.
LongStrips(img) == IF img = "STM32F407" THEN {(2 ^ 16 + 2) \div 3} ELSE {}

\* The Patterns handed to the build of an image: the well-formed ones, the
\* empty one, the ones whose last frame lacks a pixel, and one frame for a
\* long strip.
Patterns(img) ==
    IF img = "HASHER" THEN {MakePattern(0, 0, 0, 0, 0)}
    ELSE {MakePattern(fc, lc, short, seed, dseed) :
              fc \in FrameCounts(img) \cup {0}, lc \in LedCounts(img),
              short \in 0 .. 1, seed \in PixelSeeds(img),
              dseed \in DurationSeeds(img)}
         \cup {MakePattern(1, lc, 0, 0, 1) : lc \in LongStrips(img)}

\* Frame Table Emitter: a Pattern is accepted when it is not empty and every
\* frame has LED_COUNT pixels.
PatternValid(p) ==
    /\ FrameCountOf(PatternFrames(p)) >= 1
    /\ \A f \in DOMAIN PatternFrames(p) :
           ByteCountOf(PatternFrames(p)[f]) = p.leds * 3

VARIABLES
    image,            \* which main() this behaviour executes
    pattern,          \* the Pattern this image is built from
    FRAME_COUNT, LED_COUNT, frame_durations,           \* pattern_data.h
    pc,               \* position in main / WS2812_Send / delay_ms
    clock,            \* "DEFAULT" until system init has run
    pin_mode,         \* "INPUT" | "OUTPUT"
    line,             \* "UNWRITTEN" | "LOW" | "HIGH": output latch of the LED pin
    irq_masked,       \* TRUE while interrupts are globally disabled
    frame_idx, frame_pixels, frame_duration,           \* locals of main
    pData, Len_, i, byte, bit,                         \* WS2812_Send / send loop
    ms, delay_i,                                       \* delay_ms
    wire,             \* pulses put on the line by the current WS2812_Send call
    idle_ns,          \* time since the last write to the LED pin, up to one delay step
    send_calls,       \* Protocol Encoder calls made in the current iteration
    tx_done,          \* a complete buffer transmission has happened before
    last_frame,       \* frame index of the previous loop iteration, -1 at boot
    last_op,          \* <<op, frame>>: the last completed "send" or "delay"
    firmware_data,    \* hash_routine.c: the image bytes linked in (1-indexed)
    hash,             \* hash_routine.c: uint8_t hash[32]
    serial_ready,     \* whether the diagnostic serial channel accepts output
    serial,           \* characters put on the serial channel so far
    serial_drops      \* serial_print calls that returned with nothing sent

vars == <<image, pattern, FRAME_COUNT, LED_COUNT, frame_durations, pc, clock,
          pin_mode, line, irq_masked, frame_idx, frame_pixels, frame_duration,
          pData, Len_, i, byte, bit, ms, delay_i, wire, idle_ns, send_calls,
          tx_done, last_frame, last_op, firmware_data, hash, serial_ready,
          serial, serial_drops>>

header == <<image, pattern, FRAME_COUNT, LED_COUNT, frame_durations>>

\* pattern_data.h: the frames table of the emitted header, frames[f][k].  It
\* is constant data and is read off the Pattern it was emitted from.
frames == IF FRAME_COUNT > 0 THEN PatternFrames(pattern) ELSE <<>>
mainLocals == <<frame_idx, frame_pixels, frame_duration>>
sendLocals == <<pData, Len_, i, byte, bit>>
delayLocals == <<ms, delay_i>>
hw == <<clock, pin_mode, line, irq_masked>>
history == <<send_calls, tx_done, last_frame, last_op>>
diag == <<firmware_data, hash, serial_ready, serial, serial_drops>>

\* ------------------------------------------------------------------- Init
Init ==
    /\ image \in Images
    /\ pattern \in Patterns(image)
    /\ FRAME_COUNT = 0 /\ LED_COUNT = 0
    /\ frame_durations = <<>>
    /\ firmware_data \in FirmwareImages(image)
    /\ hash = <<>>
    /\ serial_ready \in SerialStates(image)
    /\ serial = <<>>
    /\ serial_drops = 0
    /\ pc = IF image = "HASHER" THEN "h_main" ELSE "build"
    /\ clock = "DEFAULT"
    /\ pin_mode = "INPUT"
    /\ line = "UNWRITTEN"
    /\ irq_masked = FALSE
    /\ frame_idx = 0 /\ frame_pixels = 0 /\ frame_duration = 0
    /\ pData = 0 /\ Len_ = 0 /\ i = 0 /\ byte = 0 /\ bit = 0
    /\ ms = 0 /\ delay_i = 0
    /\ wire = <<>>
    /\ idle_ns = 0
    /\ send_calls = 0
    /\ tx_done = FALSE
    /\ last_frame = -1
    /\ last_op = <<"none", -1>>

\* ----------------------------------------------------------------- build
\* Frame Table Emitter: the tables of pattern_data.h for a valid Pattern; a
\* Pattern that is not valid is rejected and no firmware is produced.
EmitFrameTable ==
    /\ image \in Templates
    /\ pc = "build"
    /\ IF PatternValid(pattern)
       THEN /\ FRAME_COUNT' = FrameCountOf(PatternFrames(pattern))
            /\ LED_COUNT' = pattern.leds
            /\ frame_durations' = PatternDurations(pattern)
            /\ pc' = "reset"
       ELSE /\ pc' = "rejected"
            /\ UNCHANGED <<FRAME_COUNT, LED_COUNT, frame_durations>>
    /\ UNCHANGED <<image, pattern, diag, hw, mainLocals, sendLocals, delayLocals,
                   wire, idle_ns, history>>

\* ------------------------------------------------------------ main: INIT
\* SystemInit() / OSCCON = 0x70 / SYS_Init()
SystemInit ==
    /\ image \in Templates
    /\ pc = "reset"
    /\ clock' = "CONFIGURED"
    /\ pc' = "gpio"
    /\ UNCHANGED <<header, diag, pin_mode, line, irq_masked, mainLocals, sendLocals,
                   delayLocals, wire, idle_ns, history>>

\* What the GPIO set-up of each template leaves in the LED pin's output latch.
\* STM32F407: GPIO_Init only selects the mode, nothing writes the pin.
\* PIC18F4550: LED_PORT = 0.  Nuvoton M051: GPIO_CLR(LED_PORT, LED_PIN).
LineAfterGpioInit(img, old) == IF img = "STM32F407" THEN old ELSE "LOW"

ConfigureLed ==
    /\ image \in Templates
    /\ pc = "gpio"
    /\ pin_mode' = "OUTPUT"
    /\ line' = LineAfterGpioInit(image, line)
    /\ idle_ns' = IF image = "STM32F407" THEN idle_ns ELSE 0
    /\ pc' = "while"
    /\ UNCHANGED <<header, diag, clock, irq_masked, mainLocals, sendLocals,
                   delayLocals, wire, history>>

\* -------------------------------------------------------- main: PLAYBACK
InPlayback == pc \notin {"build", "rejected", "reset", "gpio"} /\ image \in Templates

\* while (1) { for (frame_idx = 0; ...
ForInit ==
    /\ image \in Templates
    /\ pc = "while"
    /\ frame_idx' = 0
    /\ pc' = "for_test"
    /\ UNCHANGED <<header, diag, hw, frame_pixels, frame_duration, sendLocals,
                   delayLocals, wire, idle_ns, history>>

\* A plausible slip: the for loop runs one index too far.
ForTestOffByOne ==
    /\ image \in Templates
    /\ pc = "for_test"
    /\ pc' = IF frame_idx <= FRAME_COUNT THEN "load" ELSE "while"
    /\ UNCHANGED <<header, diag, hw, mainLocals, sendLocals, delayLocals, wire,
                   idle_ns, history>>

\* A plausible slip: the comparison of the for loop is the wrong way round.
ForTestInverted ==
    /\ image \in Templates
    /\ pc = "for_test"
    /\ pc' = IF frame_idx > FRAME_COUNT THEN "load" ELSE "while"
    /\ UNCHANGED <<header, diag, hw, mainLocals, sendLocals, delayLocals, wire,
                   idle_ns, history>>

\* frame_idx < FRAME_COUNT: into the body, or out of the for and round the while
ForTest ==
    /\ image \in Templates
    /\ pc = "for_test"
    /\ pc' = IF frame_idx < FRAME_COUNT THEN "load" ELSE "while"
    /\ UNCHANGED <<header, diag, hw, mainLocals, sendLocals, delayLocals, wire,
                   idle_ns, history>>

\* frame_pixels = frames[frame_idx]; uint16_t frame_duration = frame_durations[frame_idx];
\* frame_pixels is kept as the index of the frame it points to.
LoadFrame ==
    /\ image \in Templates
    /\ pc = "load"
    /\ frame_idx \in DOMAIN frames
    /\ frame_pixels' = frame_idx
    /\ frame_duration' = Wrap(frame_durations[frame_idx], 16)
    /\ last_frame' = frame_idx
    /\ send_calls' = 0
    /\ pc' = "send"
    /\ UNCHANGED <<header, diag, hw, frame_idx, sendLocals, delayLocals, wire,
                   idle_ns, tx_done, last_op>>

\* ---------------------------------------------- STM32F407: WS2812_Send
\* byte & (1 << (7 - bit)), as 0 or 1
BitOf(b, n) == (b \div (2 ^ (7 - n))) % 2

\* The wait executed between GPIO_SetBits and GPIO_ResetBits, and the one
\* after GPIO_ResetBits.  Both branches of the if hold the two GPIO calls
\* and nothing else: "Wait ~0.8us" etc. are comments, no statement waits.
HighWaitNs(b) == IF b = 1 THEN 0 ELSE 0
LowWaitNs(b) == IF b = 1 THEN 0 ELSE 0

\* One pulse as it appears on the line; `branch` records which arm of the
\* if sent it (1: the "1" bit arm, 0: the "0" bit arm).
Pulse(b) == [branch |-> b, high |-> HighWaitNs(b), low |-> LowWaitNs(b)]

\* WS2812_Send((uint8_t*)frame_pixels, LED_COUNT * 3);  Len is uint16_t
CallSend ==
    /\ image = "STM32F407"
    /\ pc = "send"
    /\ pData' = frame_pixels
    /\ Len_' = Wrap(LED_COUNT * 3, 16)
    /\ i' = 0
    /\ wire' = <<>>
    /\ send_calls' = send_calls + 1
    /\ pc' = "tx_byte"
    /\ UNCHANGED <<header, diag, hw, mainLocals, byte, bit, delayLocals, idle_ns,
                   tx_done, last_frame, last_op>>

\* i < Len: uint8_t byte = pData[i]; bit = 0
TxLoadByte ==
    /\ pc = "tx_byte"
    /\ i < Len_
    /\ i \in DOMAIN frames[pData]
    /\ byte' = frames[pData][i]
    /\ bit' = 0
    /\ pc' = "tx_bit"
    /\ UNCHANGED <<header, diag, hw, mainLocals, pData, Len_, i, delayLocals, wire,
                   idle_ns, history>>

\* bit < 8: GPIO_SetBits(LED_PORT, LED_PIN) in either arm
TxSet ==
    /\ pc = "tx_bit"
    /\ bit < BitsPerByte
    /\ line' = "HIGH"
    /\ idle_ns' = 0
    /\ pc' = "tx_low"
    /\ UNCHANGED <<header, diag, clock, pin_mode, irq_masked, mainLocals, sendLocals,
                   delayLocals, wire, history>>

\* GPIO_ResetBits(LED_PORT, LED_PIN) in either arm; bit++
TxReset ==
    /\ pc = "tx_low"
    /\ line' = "LOW"
    /\ idle_ns' = 0
    /\ wire' = Append(wire, Pulse(BitOf(byte, bit)))
    /\ bit' = bit + 1
    /\ pc' = "tx_bit"
    /\ UNCHANGED <<header, diag, clock, pin_mode, irq_masked, mainLocals, pData, Len_,
                   i, byte, delayLocals, history>>

\* bit == 8: i++
TxByteDone ==
    /\ pc = "tx_bit"
    /\ bit >= BitsPerByte
    /\ i' = Wrap(i + 1, 16)
    /\ pc' = "tx_byte"
    /\ UNCHANGED <<header, diag, hw, mainLocals, pData, Len_, byte, bit, delayLocals,
                   wire, idle_ns, history>>

\* A plausible slip: the frame delay is left out after the transmission.
SendReturnSkipsDelay ==
    /\ pc = "tx_byte"
    /\ i >= Len_
    /\ tx_done' = TRUE
    /\ last_op' = <<"send", frame_idx>>
    /\ pc' = "for_inc"
    /\ UNCHANGED <<header, diag, hw, mainLocals, sendLocals, delayLocals, wire,
                   idle_ns, send_calls, last_frame>>

\* i == Len: WS2812_Send returns to main, which goes on to delay_ms
SendReturn ==
    /\ pc = "tx_byte"
    /\ i >= Len_
    /\ tx_done' = TRUE
    /\ last_op' = <<"send", frame_idx>>
    /\ pc' = "delay_call"
    /\ UNCHANGED <<header, diag, hw, mainLocals, sendLocals, delayLocals, wire,
                   idle_ns, send_calls, last_frame>>

\* ------------------------- PIC18F4550 / Nuvoton M051: the send placeholder
\* for (i = 0; i < LED_COUNT; i++) { /* comments only */ }
SendLoopInit ==
    /\ image \in {"PIC18F4550", "NUVOTON_M051"}
    /\ pc = "send"
    /\ i' = 0
    /\ pc' = "send_loop"
    /\ UNCHANGED <<header, diag, hw, mainLocals, pData, Len_, byte, bit, delayLocals,
                   wire, idle_ns, history>>

SendLoopStep ==
    /\ pc = "send_loop"
    /\ i < LED_COUNT
    /\ i' = Wrap(i + 1, CounterBits(image))
    /\ UNCHANGED <<header, diag, hw, pc, mainLocals, pData, Len_, byte, bit,
                   delayLocals, wire, idle_ns, history>>

SendLoopExit ==
    /\ pc = "send_loop"
    /\ i >= LED_COUNT
    /\ last_op' = <<"send", frame_idx>>
    /\ pc' = "delay_call"
    /\ UNCHANGED <<header, diag, hw, mainLocals, sendLocals, delayLocals, wire,
                   idle_ns, send_calls, tx_done, last_frame>>

\* --------------------------------------------------------------- delay_ms
\* delay_ms(frame_duration);  ms is uint16_t
DelayCall ==
    /\ pc = "delay_call"
    /\ ms' = frame_duration
    /\ delay_i' = 0
    /\ pc' = "delay"
    /\ UNCHANGED <<header, diag, hw, mainLocals, sendLocals, wire, idle_ns, history>>

\* A plausible slip: the delay blinks the LED pin while it waits.
DelayStepWritesPin ==
    /\ pc = "delay"
    /\ delay_i < ms
    /\ delay_i' = Wrap(delay_i + 1, 16)
    /\ line' = "HIGH"
    /\ idle_ns' = 0
    /\ UNCHANGED <<header, diag, clock, pin_mode, irq_masked, pc, mainLocals,
                   sendLocals, ms, wire, history>>

\* i < ms: one millisecond goes by (the inner loop / CLK_SysTickDelay(1000)); i++
DelayStep ==
    /\ pc = "delay"
    /\ delay_i < ms
    /\ delay_i' = Wrap(delay_i + 1, 16)
    /\ idle_ns' = DelayStepNs    \* saturating: one delay step or more
    /\ UNCHANGED <<header, diag, hw, pc, mainLocals, sendLocals, ms, wire, history>>

\* i == ms: delay_ms returns
DelayReturn ==
    /\ pc = "delay"
    /\ delay_i >= ms
    /\ last_op' = <<"delay", frame_idx>>
    /\ pc' = "for_inc"
    /\ UNCHANGED <<header, diag, hw, mainLocals, sendLocals, delayLocals, wire,
                   idle_ns, send_calls, tx_done, last_frame>>

\* frame_idx++  (uint8_t on the PIC18F4550, uint16_t on the others)
ForInc ==
    /\ pc = "for_inc"
    /\ frame_idx' = Wrap(frame_idx + 1, CounterBits(image))
    /\ pc' = "for_test"
    /\ UNCHANGED <<header, diag, hw, frame_pixels, frame_duration, sendLocals,
                   delayLocals, wire, idle_ns, history>>

\* ------------------------------------------------- hash_routine.c: main
\* "FIRMWARE_HASH:" as the characters handed to serial_print
HashMarker == <<"F", "I", "R", "M", "W", "A", "R", "E", "_", "H", "A", "S", "H", ":">>

Newline == <<"\n">>

HexDigits == <<"0", "1", "2", "3", "4", "5", "6", "7",
               "8", "9", "a", "b", "c", "d", "e", "f">>

\* serial_print_hex(data, len): two lowercase hex characters per byte
RECURSIVE HexOf(_)
HexOf(bytes) ==
    IF bytes = <<>> THEN <<>>
    ELSE <<HexDigits[(Head(bytes) \div 16) + 1], HexDigits[(Head(bytes) % 16) + 1]>>
         \o HexOf(Tail(bytes))

\* serial_print / serial_print_hex are platform functions the routine only
\* declares.  On a ready channel the characters go out.  On a channel that is
\* not ready the call either has not returned yet (no step) or has given up
\* and returned with nothing sent.
SerialWrite(chars) ==
    /\ serial' = IF serial_ready THEN serial \o chars ELSE serial
    /\ serial_drops' = IF serial_ready THEN serial_drops ELSE serial_drops + 1

\* The channel (a UART, a host that may or may not listen) changes state on
\* its own while the routine runs.
SerialChannelChanges ==
    /\ image = "HASHER"
    /\ pc \in {"h_main", "h_marker", "h_hex", "h_newline"}
    /\ serial_ready' = ~serial_ready
    /\ UNCHANGED <<header, firmware_data, hash, serial, serial_drops, pc, hw, mainLocals,
                   sendLocals, delayLocals, wire, idle_ns, history>>

\* ------------------------------------------------------------- sha256_hash
\* SHA-256 (FIPS 180-4) over a byte sequence.  A 32-bit word is kept as the
\* pair <<high 16 bits, low 16 bits>>.
RECURSIVE Xor16(_, _)
Xor16(x, y) ==
    IF x = 0 THEN y
    ELSE IF y = 0 THEN x
    ELSE ((x + y) % 2) + 2 * Xor16(x \div 2, y \div 2)

RECURSIVE And16(_, _)
And16(x, y) ==
    IF x = 0 \/ y = 0 THEN 0
    ELSE (x % 2) * (y % 2) + 2 * And16(x \div 2, y \div 2)

WXor(a, b) == <<Xor16(a[1], b[1]), Xor16(a[2], b[2])>>

WAnd(a, b) == <<And16(a[1], b[1]), And16(a[2], b[2])>>

WNot(a) == <<(2 ^ 16 - 1) - a[1], (2 ^ 16 - 1) - a[2]>>

WAdd(a, b) ==
    LET lo == a[2] + b[2]
    IN  <<(a[1] + b[1] + lo \div (2 ^ 16)) % (2 ^ 16), lo % (2 ^ 16)>>

\* rotate right by n < 16
RotRSmall(a, n) ==
    <<(a[1] \div (2 ^ n)) + (a[2] % (2 ^ n)) * (2 ^ (16 - n)),
      (a[2] \div (2 ^ n)) + (a[1] % (2 ^ n)) * (2 ^ (16 - n))>>

RotR(a, n) == IF n >= 16 THEN RotRSmall(<<a[2], a[1]>>, n - 16) ELSE RotRSmall(a, n)

\* shift right by n < 16
ShR(a, n) ==
    <<a[1] \div (2 ^ n), (a[2] \div (2 ^ n)) + (a[1] % (2 ^ n)) * (2 ^ (16 - n))>>

Sha256K == <<
    <<17034, 12184>>, <<28983, 17553>>, <<46528, 64463>>, <<59829, 56229>>,
    <<14678, 49755>>, <<23025, 4593>>, <<37439, 33444>>, <<43804, 24277>>,
    <<55303, 43672>>, <<4739, 23297>>, <<9265, 34238>>, <<21772, 32195>>,
    <<29374, 23924>>, <<32990, 45566>>, <<39900, 1703>>, <<49563, 61812>>,
    <<58523, 27073>>, <<61374, 18310>>, <<4033, 40390>>, <<9228, 41420>>,
    <<11753, 11375>>, <<19060, 33962>>, <<23728, 43484>>, <<30457, 35034>>,
    <<38974, 20818>>, <<43057, 50797>>, <<45059, 10184>>, <<48985, 32711>>,
    <<50912, 3059>>, <<54695, 37191>>, <<1738, 25425>>, <<5161, 10599>>,
    <<10167, 2693>>, <<11803, 8504>>, <<19756, 28156>>, <<21304, 3347>>,
    <<25866, 29524>>, <<30314, 2747>>, <<33218, 51502>>, <<37490, 11397>>,
    <<41663, 59553>>, <<43034, 26187>>, <<49739, 35696>>, <<51052, 20899>>,
    <<53650, 59417>>, <<54937, 1572>>, <<62478, 13701>>, <<4202, 41072>>,
    <<6564, 49430>>, <<7735, 27656>>, <<10056, 30540>>, <<13488, 48309>>,
    <<14620, 3251>>, <<20184, 43594>>, <<23452, 51791>>, <<26670, 28659>>,
    <<29839, 33518>>, <<30885, 25455>>, <<33992, 30740>>, <<36039, 520>>,
    <<37054, 65530>>, <<42064, 27883>>, <<48889, 41975>>, <<50801, 30962>> >>

Sha256H0 == <<
    <<27145, 58983>>, <<47975, 44677>>, <<15470, 62322>>, <<42319, 62778>>,
    <<20750, 21119>>, <<39685, 26764>>, <<8067, 55723>>, <<23520, 52505>> >>

BigSigma0(x) == WXor(WXor(RotR(x, 2), RotR(x, 13)), RotR(x, 22))

BigSigma1(x) == WXor(WXor(RotR(x, 6), RotR(x, 11)), RotR(x, 25))

SmallSigma0(x) == WXor(WXor(RotR(x, 7), RotR(x, 18)), ShR(x, 3))

SmallSigma1(x) == WXor(WXor(RotR(x, 17), RotR(x, 19)), ShR(x, 10))

Ch(x, y, z) == WXor(WAnd(x, y), WAnd(WNot(x), z))

Maj(x, y, z) == WXor(WXor(WAnd(x, y), WAnd(x, z)), WAnd(y, z))

\* the message, 0x80, zeros up to 56 mod 64, then the bit length in 8 bytes
Sha256Pad(data) ==
    LET n == Len(data)
        zeros == (119 - n) % 64
        bits == n * 8
    IN  data \o <<128>> \o [k \in 1 .. zeros |-> 0]
        \o <<0, 0, 0, 0, (bits \div 16777216) % 256, (bits \div 65536) % 256,
             (bits \div 256) % 256, bits % 256>>

\* the 16 big-endian words of block number blk (from 0)
BlockWords(padded, blk) ==
    [t \in 1 .. 16 |->
        LET o == blk * 64 + (t - 1) * 4
        IN  <<padded[o + 1] * 256 + padded[o + 2], padded[o + 3] * 256 + padded[o + 4]>>]

\* message schedule: the word that follows the words of w
ScheduleStep(w) ==
    LET t == Len(w) + 1
        next == WAdd(WAdd(SmallSigma1(w[t - 2]), w[t - 7]),
                     WAdd(SmallSigma0(w[t - 15]), w[t - 16]))
    IN  Append(w, <<next[1], next[2]>>)

\* n schedule steps, split in halves to keep the evaluation shallow
RECURSIVE ScheduleSteps(_, _)
ScheduleSteps(w, n) ==
    IF n = 0 THEN w
    ELSE IF n = 1 THEN ScheduleStep(w)
    ELSE LET left == ScheduleSteps(w, n \div 2)
         IN  IF Len(left) > 0 THEN ScheduleSteps(left, n - n \div 2) ELSE left

Schedule(w) == ScheduleSteps(w, 64 - Len(w))

\* round t of the compression function on the working variables a..h
Round(st, w, t) ==
    LET t1 == WAdd(WAdd(WAdd(st[8], BigSigma1(st[5])),
                        WAdd(Ch(st[5], st[6], st[7]), Sha256K[t])), w[t])
        t2 == WAdd(BigSigma0(st[1]), Maj(st[1], st[2], st[3]))
        a == WAdd(t1, t2)
        e == WAdd(st[4], t1)
    IN  <<<<a[1], a[2]>>, st[1], st[2], st[3], <<e[1], e[2]>>, st[5], st[6], st[7]>>

\* rounds t .. t + n - 1, split in halves to keep the evaluation shallow
RECURSIVE RoundsFrom(_, _, _, _)
RoundsFrom(st, w, t, n) ==
    IF n = 0 THEN st
    ELSE IF n = 1 THEN Round(st, w, t)
    ELSE LET left == RoundsFrom(st, w, t, n \div 2)
         IN  IF left[1][1] >= 0 THEN RoundsFrom(left, w, t + n \div 2, n - n \div 2)
             ELSE left

Rounds(st, w, t) == RoundsFrom(st, w, t, 65 - t)

RECURSIVE Compress(_, _, _)
Compress(hs, padded, blk) ==
    IF blk * 64 >= Len(padded) THEN hs
    ELSE LET w == Schedule(BlockWords(padded, blk))
             st == Rounds(hs, w, 1)
         IN  Compress([k \in 1 .. 8 |-> WAdd(hs[k], st[k])], padded, blk + 1)

\* the 32 digest bytes, big-endian word by word
sha256_hash(data) ==
    LET hs == Compress(Sha256H0, Sha256Pad(data), 0)
    IN  [k \in 1 .. 32 |->
            LET wd == hs[((k - 1) \div 4) + 1]
                half == wd[(((k - 1) % 4) \div 2) + 1]
            IN  IF (k - 1) % 2 = 0 THEN half \div 256 ELSE half % 256]

\* sha256_hash(firmware_data, firmware_size, hash);
HashFirmware ==
    /\ image = "HASHER"
    /\ pc = "h_main"
    /\ hash' = sha256_hash(firmware_data)
    /\ pc' = "h_marker"
    /\ UNCHANGED <<header, firmware_data, serial_ready, serial, serial_drops, hw, mainLocals,
                   sendLocals, delayLocals, wire, idle_ns, history>>

\* serial_print("FIRMWARE_HASH:");
PrintMarker ==
    /\ pc = "h_marker"
    /\ SerialWrite(HashMarker)
    /\ pc' = "h_hex"
    /\ UNCHANGED <<header, firmware_data, hash, serial_ready, hw, mainLocals,
                   sendLocals, delayLocals, wire, idle_ns, history>>

\* serial_print_hex(hash, 32);
PrintHex ==
    /\ pc = "h_hex"
    /\ SerialWrite(HexOf(hash))
    /\ pc' = "h_newline"
    /\ UNCHANGED <<header, firmware_data, hash, serial_ready, hw, mainLocals,
                   sendLocals, delayLocals, wire, idle_ns, history>>

\* A plausible slip: the terminating newline is never printed.
PrintNewlineOmitted ==
    /\ pc = "h_newline"
    /\ pc' = "h_return"
    /\ UNCHANGED <<header, diag, hw, mainLocals, sendLocals, delayLocals, wire,
                   idle_ns, history>>

\* serial_print("\n");
PrintNewline ==
    /\ pc = "h_newline"
    /\ SerialWrite(Newline)
    /\ pc' = "h_return"
    /\ UNCHANGED <<header, firmware_data, hash, serial_ready, hw, mainLocals,
                   sendLocals, delayLocals, wire, idle_ns, history>>

\* return 0;  main is over: nothing of this image runs after it
HasherReturn ==
    /\ pc = "h_return"
    /\ pc' = "exit"
    /\ UNCHANGED <<header, diag, hw, mainLocals, sendLocals, delayLocals, wire,
                   idle_ns, history>>

\* ------------------------------------------------------------------- Next
Next ==
    \/ EmitFrameTable
    \/ SystemInit \/ ConfigureLed
    \/ ForInit \/ ForTest \/ LoadFrame
    \/ CallSend \/ TxLoadByte \/ TxSet \/ TxReset \/ TxByteDone \/ SendReturn
    \/ SendLoopInit \/ SendLoopStep \/ SendLoopExit
    \/ DelayCall \/ DelayStep \/ DelayReturn
    \/ ForInc
    \/ HashFirmware \/ PrintMarker \/ PrintHex \/ PrintNewline \/ HasherReturn
    \/ SerialChannelChanges

Spec == Init /\ [][Next]_vars

\* One CPU, no scheduler: whenever a next instruction exists it is executed.
FairSpec == Spec /\ WF_vars(Next)

\* ============================================================== properties
\* WS2812_Send has returned to main and the frame delay has not begun.
SendComplete == image = "STM32F407" /\ pc = "delay_call"

InSend == pc \in {"tx_byte", "tx_bit", "tx_low", "send_loop"}

InTransmission == pc \in {"tx_byte", "tx_bit", "tx_low"}

InDelay == pc = "delay"

\* Bit (7 - k mod 8) of byte (k div 8) of the buffer handed to the encoder.
BufferBit(k) == BitOf(frames[pData][k \div BitsPerByte], k % BitsPerByte)

\* The part of C1 that does not speak of pulse widths: 8*Len pulses, sent in
\* buffer order, most significant bit first, each by the arm of its bit value.
PulseCountAndOrder ==
    SendComplete =>
        /\ Len(wire) = BitsPerByte * Len_
        /\ \A k \in 0 .. Len(wire) - 1 : wire[k + 1].branch = BufferBit(k)

\* C1: one WS2812_Send call emits exactly 8*Len pulses, the k-th one encoding
\* bit (7 - k mod 8) of byte (k div 8); a 1 bit is a long HIGH followed by a
\* short LOW, a 0 bit a short HIGH followed by a long LOW.
C1_PulsesEncodeBuffer ==
    SendComplete =>
        /\ Len(wire) = BitsPerByte * Len_
        /\ \A k \in 0 .. Len(wire) - 1 :
              /\ wire[k + 1].branch = BufferBit(k)
              /\ BufferBit(k) = 1 => wire[k + 1].high > wire[k + 1].low
              /\ BufferBit(k) = 0 => wire[k + 1].high < wire[k + 1].low

\* The reference decoder: a pulse is a 1 when its HIGH is the longer part.
DecodeBit(p) == IF p.high > p.low THEN 1 ELSE 0

RECURSIVE DecodeByte(_, _)
DecodeByte(pulses, n) ==
    IF n = 0 THEN 0
    ELSE 2 * DecodeByte(pulses, n - 1) + DecodeBit(pulses[n])

RECURSIVE DecodeBytes(_)
DecodeBytes(pulses) ==
    IF Len(pulses) < BitsPerByte THEN <<>>
    ELSE <<DecodeByte(pulses, BitsPerByte)>>
         \o DecodeBytes(SubSeq(pulses, BitsPerByte + 1, Len(pulses)))

\* C2: decoding by pulse width what the encoder put on the line for a 3-byte
\* buffer gives the buffer back.
C2_RoundTrip ==
    (SendComplete /\ Len_ = 3) =>
        DecodeBytes(wire) = [k \in 1 .. 3 |-> frames[pData][k - 1]]

MinResetGapNs == 50 * 1000

\* C3: when the first pulse of a transmission is about to be sent and a
\* transmission was completed before, the line has been LOW for at least 50 us.
C3_ResetGapBeforeNextFrame ==
    (pc = "tx_bit" /\ i = 0 /\ bit = 0 /\ tx_done) =>
        (line = "LOW" /\ idle_ns >= MinResetGapNs)

\* C4: the frames are played in the order 0, 1, ..., FRAME_COUNT-1, 0, ...:
\* each iteration plays the successor, modulo FRAME_COUNT, of the previous one.
C4_FramesInCyclicOrder ==
    pc = "load" => frame_idx = (last_frame + 1) % FRAME_COUNT

\* C5: when the frame delay is reached, the encoder has been called exactly
\* once in this iteration, with frames[frame_idx] and LED_COUNT*3, and the
\* line has carried that frame's bits.
C5_EncoderCalledWithFrame ==
    pc \in {"delay_call", "delay"} =>
        /\ send_calls = 1
        /\ pData = frame_idx
        /\ Len_ = LED_COUNT * 3
        /\ Len(wire) = BitsPerByte * LED_COUNT * 3
        /\ \A k \in 0 .. Len(wire) - 1 :
              wire[k + 1].branch
                  = BitOf(frames[frame_idx][k \div BitsPerByte], k % BitsPerByte)

\* C6: sends and delays strictly alternate: a send is in progress only when
\* the last completed operation is not a send (boot, or a delay), and a delay
\* is in progress or about to start only when the last completed operation is
\* the send of the same frame; never both at once.
C6_SendAndDelayAlternate ==
    /\ ~(InSend /\ InDelay)
    /\ InSend => last_op[1] \in {"none", "delay"}
    /\ (InDelay \/ pc = "delay_call") => last_op = <<"send", frame_idx>>
    /\ pc \in {"for_inc", "for_test", "load", "send"} /\ last_op[1] # "none"
           => last_op[1] = "delay"

\* a delay of the second frame is running after both frames were transmitted
C6_DelayAfterSecondSend ==
    /\ InDelay /\ delay_i > 0
    /\ tx_done /\ frame_idx = 1
    /\ last_op = <<"send", 1>>

\* C7: when PLAYBACK is entered the pin is an output and INIT has driven it LOW.
C7_LineLowAtPlayback ==
    pc = "while" => (pin_mode = "OUTPUT" /\ line = "LOW")

\* the complete line FIRMWARE_HASH:<64 hex>\n and nothing else
HashLineEmitted ==
    /\ Len(serial) = Len(HashMarker) + 64 + 1
    /\ SubSeq(serial, 1, Len(HashMarker)) = HashMarker
    /\ serial[Len(serial)] = "\n"

\* C8: whenever the device is in PLAYBACK, the hash line has been emitted on
\* the serial channel, once.
C8_HashBeforePlayback == InPlayback => HashLineEmitted

\* C9: with the serial channel not ready, once the hasher has stopped trying
\* to print and its main is over, the device is in PLAYBACK.
C9_HasherProceedsToPlayback ==
    (image = "HASHER" /\ ~serial_ready /\ serial = <<>> /\ pc = "exit")
    => InPlayback

\* C10: interrupts are disabled for as long as a buffer transmission runs.
C10_TransmissionMasksInterrupts == InTransmission => irq_masked

\* The original C11: only the Protocol Encoder ever changes the LED pin, so
\* every step that changes the line is a step of a running transmission.
C11_OnlyEncoderWritesPin == [][line' # line => InTransmission]_vars

\* C11 (amended): the LED pin is written by main's GPIO set-up (before
\* PLAYBACK) and by the Protocol Encoder, and by nothing else: not by the
\* loop body, delay_ms or the hash routine.
C11_PinWrittenByInitAndEncoderOnly ==
    [][line' # line => (pc = "gpio" \/ InTransmission)]_vars

\* a frame delay is running after the encoder has driven the line
C11_DelayRunsWithLineIdle ==
    pc = "delay" /\ delay_i > 0 /\ tx_done /\ line = "LOW" /\ frame_idx = 0

\* FIRMWARE_HASH: then the 64 hex characters of the digest of firmware_data,
\* then one newline
ExpectedHashLine == HashMarker \o HexOf(sha256_hash(firmware_data)) \o Newline

C14_DelayLastsFrameDuration ==
    (image \in Templates /\ pc = "for_inc") => delay_i = frame_durations[frame_idx]

\* C15: in PLAYBACK the LED line is LOW whenever no transmission is going on
\* (so throughout every frame delay), and when a transmission starts.
C15_LineLowOutsideTransmission ==
    /\ (InPlayback /\ ~InTransmission) => line = "LOW"
    /\ (pc = "tx_byte" /\ i = 0) => line = "LOW"

\* C16: the loop counters never wrap: every frame_idx++ of the frame loop and
\* every i++ of the send step yields the next integer, so each loop counts up
\* to its bound and ends.
C16_CountersNeverWrap ==
    [][/\ pc = "for_inc" => frame_idx' = frame_idx + 1
       /\ (pc = "send_loop" /\ i' # i) => i' = i + 1
       /\ (pc = "tx_bit" /\ pc' = "tx_byte") => i' = i + 1]_vars

\* C17: every table read in PLAYBACK is in bounds: frames[frame_idx] and
\* frame_durations[frame_idx] are read with 0 <= frame_idx < FRAME_COUNT, and
\* the encoder reads pData[i] with 0 <= i < LED_COUNT*3, in the buffer of the
\* current frame.
C17_TableReadsInBounds ==
    /\ (image \in Templates /\ pc = "load") =>
           /\ 0 <= frame_idx /\ frame_idx < FRAME_COUNT
           /\ frame_idx \in DOMAIN frames
           /\ frame_idx \in DOMAIN frame_durations
    /\ (pc = "tx_byte" /\ i < Len_) =>
           /\ pData = frame_idx /\ pData \in DOMAIN frames
           /\ 0 <= i /\ i < LED_COUNT * 3
           /\ i \in DOMAIN frames[pData]

\* the encoder is about to read the last byte of the last frame of two
C17_LastByteOfLastFrame ==
    /\ pc = "tx_byte" /\ FRAME_COUNT = 2 /\ frame_idx = FRAME_COUNT - 1
    /\ i = LED_COUNT * 3 - 1 /\ i < Len_

\* C18: in the STM32F407 template a frame transmission sends LED_COUNT*3
\* bytes, 24*LED_COUNT pulses: the length is not truncated by the 16-bit Len.
C18_WholeStripTransmitted ==
    SendComplete =>
        /\ Len_ = LED_COUNT * 3
        /\ Len(wire) = 3 * BitsPerByte * LED_COUNT

====
